---- MODULE Spec2Model ----
(***************************************************************************)
(* A model of src/app.py: a Streamlit front end that forwards prompts and  *)
(* images to a hosted generation API, extracts the inline images of the    *)
(* response, renders them and keeps a session-local history.               *)
(*                                                                         *)
(* One action is one run of the script (Streamlit re-executes app.py from  *)
(* top to bottom on every interaction); the replies of the external API    *)
(* are inputs of the run.                                                  *)
(***************************************************************************)
EXTENDS Integers, Sequences, FiniteSets, TLC

\* ------------------------------------------------------------------------
\* Bounds of the model
\* ------------------------------------------------------------------------
MaxParts == 2          \* longest parts list of a response given to extract_images
MaxHistory == 2        \* a flow is started only while the history is shorter

\* ------------------------------------------------------------------------
\* Python values
\* ------------------------------------------------------------------------
\* An attribute of a response object is absent (reading it raises
\* AttributeError), None, or a value.
Absent == [st |-> "absent"]
None == [st |-> "none"]
Val(v) == [st |-> "val", v |-> v]

\* The result of a call that raised.
Raised == [st |-> "raised"]

\* bool(x) of an Optional[bytes]; payloads are strings, b"" is "".
TruthyBytes(x) == x.st = "val" /\ x.v # ""

\* bool(x) of an Optional[str]; texts are sequences of characters.
TruthyText(x) == x.st = "val" /\ x.v # <<>>

Whitespace == {" "}

\* str.strip(): drop the leading and the trailing whitespace.
RECURSIVE lstrip(_)
lstrip(s) ==
    IF s # <<>> /\ Head(s) \in Whitespace THEN lstrip(Tail(s)) ELSE s

RECURSIVE rstrip(_)
rstrip(s) ==
    IF s # <<>> /\ s[Len(s)] \in Whitespace
    THEN rstrip(SubSeq(s, 1, Len(s) - 1))
    ELSE s

\* A faulty strip that keeps the whitespace.
strip_nothing(s) == s

strip(s) == rstrip(lstrip(s))

\* reversed(xs)
reversed(xs) == [i \in 1..Len(xs) |-> xs[Len(xs) + 1 - i]]

\* All sequences over S of length at most n.
SeqUpTo(S, n) == UNION {[1..k -> S] : k \in 0..n}

\* ------------------------------------------------------------------------
\* Responses of the generation API
\* ------------------------------------------------------------------------
Part(text, inline_data) == [text |-> text, inline_data |-> inline_data]
Blob(data, mime_type) == [data |-> data, mime_type |-> mime_type]
Content(parts) == [parts |-> parts]
Candidate(content) == [content |-> content]
Response(candidates) == [st |-> "response", candidates |-> candidates]

\* A response whose only candidate holds the given parts.
OfParts(parts) == Response(Val(<<Candidate(Val(Content(Val(parts))))>>))

\* ------------------------------------------------------------------------
\* extract_images
\* ------------------------------------------------------------------------
\* A faulty loop that collects the images in reverse order.
RECURSIVE ScanPartsPrepend(_, _, _)
ScanPartsPrepend(parts, i, images) ==
    IF i > Len(parts) THEN [images |-> images, error |-> FALSE]
    ELSE LET inline == parts[i].inline_data
         IN  IF inline.st # "val" THEN ScanPartsPrepend(parts, i + 1, images)
             ELSE IF inline.v.data.st = "absent"
                  THEN [images |-> images, error |-> TRUE]
             ELSE IF ~TruthyBytes(inline.v.data)
                  THEN ScanPartsPrepend(parts, i + 1, images)
             ELSE IF inline.v.mime_type.st = "absent"
                  THEN [images |-> images, error |-> TRUE]
             ELSE ScanPartsPrepend(parts, i + 1,
                      <<[bytes |-> inline.v.data.v,
                         mime |-> inline.v.mime_type]>> \o images)

\* The loop over candidate.content.parts from part i on; an attribute error
\* leaves the loop with the images appended so far.
RECURSIVE ScanParts(_, _, _)
ScanParts(parts, i, images) ==
    IF i > Len(parts) THEN [images |-> images, error |-> FALSE]
    ELSE LET inline == parts[i].inline_data   \* getattr(part, "inline_data", None)
         IN  IF inline.st # "val" THEN ScanParts(parts, i + 1, images)
             ELSE IF inline.v.data.st = "absent"
                  THEN [images |-> images, error |-> TRUE]
             ELSE IF ~TruthyBytes(inline.v.data)
                  THEN ScanParts(parts, i + 1, images)
             ELSE IF inline.v.mime_type.st = "absent"
                  THEN [images |-> images, error |-> TRUE]
             ELSE ScanParts(parts, i + 1,
                      Append(images, [bytes |-> inline.v.data.v,
                                      mime |-> inline.v.mime_type]))

\* extract_images(response): the images, and whether the except branch ran
\* (st.error "No image data found in model response...").
extract_images(response) ==
    LET cs == response.candidates
        NoData == [images |-> <<>>, error |-> TRUE]
    IN  IF cs.st # "val" THEN NoData
        ELSE IF cs.v = <<>> THEN NoData
        ELSE IF cs.v[1].content.st # "val" THEN NoData
        ELSE IF cs.v[1].content.v.parts.st # "val" THEN NoData
        ELSE ScanParts(cs.v[1].content.v.parts.v, 1, <<>>)

\* ------------------------------------------------------------------------
\* Rendering and history
\* ------------------------------------------------------------------------
\* Payloads: "A" and "B" are image files, "X" is bytes that PIL's Image.open
\* rejects (UnidentifiedImageError).
Decodable(img_bytes) == img_bytes \in {"A", "B"}

\* 'png' in mime, for the MIME types of the model.
HasPng(mime) == mime = "image/png"

Msg(level, text) == [level |-> level, text |-> text]

\* A faulty add_to_history that puts the record in front.
add_to_history_front(hist, img_bytes, mime, kind, prompt, now) ==
    <<[bytes |-> img_bytes, mime |-> mime,
       meta |-> [ts |-> now, kind |-> kind, prompt |-> prompt]]>> \o hist

\* add_to_history(img_bytes, mime, kind, prompt) on the history hist, the
\* clock reading now.
add_to_history(hist, img_bytes, mime, kind, prompt, now) ==
    Append(hist, [bytes |-> img_bytes, mime |-> mime,
                  meta |-> [ts |-> now, kind |-> kind, prompt |-> prompt]])

\* show_images from image idx on: what was put on the page, and whether an
\* exception left the loop. Image.open raises on undecodable bytes before
\* anything of that image is shown; 'png' in mime raises TypeError on a None
\* MIME type after st.image and before st.download_button.
RECURSIVE ShowFrom(_, _, _, _)
ShowFrom(images, idx, base_filename, shown) ==
    IF idx > Len(images) THEN [shown |-> shown, raised |-> FALSE]
    ELSE LET img == images[idx]
         IN  IF ~Decodable(img.bytes) THEN [shown |-> shown, raised |-> TRUE]
             ELSE IF img.mime.st # "val"
                  THEN [shown |-> Append(shown, [bytes |-> img.bytes, idx |-> idx,
                                                 download |-> FALSE,
                                                 file_name |-> <<base_filename, idx, "">>]),
                        raised |-> TRUE]
             ELSE ShowFrom(images, idx + 1, base_filename,
                      Append(shown, [bytes |-> img.bytes, idx |-> idx,
                                     download |-> TRUE,
                                     file_name |-> <<base_filename, idx,
                                         IF HasPng(img.mime.v) THEN "png" ELSE "jpg">>]))

show_images(images, base_filename) == ShowFrom(images, 1, base_filename, <<>>)

\* for img_bytes, mime in images: add_to_history(img_bytes, mime, kind, prompt)
RECURSIVE AddAll(_, _, _, _, _, _)
AddAll(hist, images, i, kind, prompt, now) ==
    IF i > Len(images) THEN hist
    ELSE AddAll(add_to_history(hist, images[i].bytes, images[i].mime, kind, prompt, now),
                images, i + 1, kind, prompt, now)

\* The History tab: the entries put on the page, most recent first, and
\* whether an exception ended the tab. entry['meta']['prompt'][:120] raises
\* TypeError on a None prompt, after st.image of that entry.
RECURSIVE GalleryFrom(_, _, _)
GalleryFrom(entries, i, page) ==
    IF i > Len(entries) THEN [page |-> page, raised |-> FALSE]
    ELSE IF entries[i].meta.prompt.st # "val"
         THEN [page |-> Append(page, entries[i]), raised |-> TRUE]
    ELSE GalleryFrom(entries, i + 1, Append(page, entries[i]))

HistoryTab(hist) == GalleryFrom(reversed(hist), 1, <<>>)

\* ------------------------------------------------------------------------
\* Calls of the generation API
\* ------------------------------------------------------------------------
\* response.candidates[0].content.parts[0].text, Raised when the call or any
\* access on the way raised.
FirstText(result) ==
    IF result = Raised THEN Raised
    ELSE LET cs == result.candidates
         IN  IF cs.st # "val" THEN Raised
             ELSE IF cs.v = <<>> THEN Raised
             ELSE IF cs.v[1].content.st # "val" THEN Raised
             ELSE IF cs.v[1].content.v.parts.st # "val" THEN Raised
             ELSE IF cs.v[1].content.v.parts.v = <<>> THEN Raised
             ELSE IF cs.v[1].content.v.parts.v[1].text.st = "absent" THEN Raised
             ELSE cs.v[1].content.v.parts.v[1].text

\* One entry of the log of calls of client.models.generate_content.
\* got is what the caller obtained: Raised, the text read from the reply of
\* the text model, or the reply of the image model.
Returned == [st |-> "returned"]

Call(model, template, text, n_images, got) ==
    [model |-> model, template |-> template, text |-> text,
     n_images |-> n_images, got |-> got]

text_model == "gemini-1.5-flash"
image_model == "gemini-2.5-flash-image-preview"

\* What one run of a tab's handler did: the calls it made, what it put on
\* the page, its messages, the images it extracted, the prompt it recorded
\* and the history it left.
Outcome(calls, shown, messages, extracted, final_prompt, hist) ==
    [calls |-> calls, shown |-> shown, messages |-> messages,
     extracted |-> extracted, final_prompt |-> final_prompt, history |-> hist]

\* Before any call: a validation message only.
Rejected(hist, text) ==
    Outcome(<<>>, <<>>, <<Msg("error", text)>>, <<>>, None, hist)

\* Image.open of an uploaded file raised outside every try block: Streamlit
\* ends the run and shows the exception.
Uncaught(hist) ==
    Outcome(<<>>, <<>>, <<Msg("exception", "UnidentifiedImageError")>>, <<>>, None, hist)

\* A faulty enhancement step that loses the user's text when the call fails.
EnhanceWithoutFallback(template, text, result, done_text, failed_text) ==
    LET got == FirstText(result)
        call == Call(text_model, template, Val(text), 0, got)
    IN  IF got = Raised
        THEN [final |-> None, calls |-> <<call>>,
              messages |-> <<Msg("warning", failed_text)>>]
        ELSE [final |-> got, calls |-> <<call>>,
              messages |-> <<Msg("toast", done_text)>>]

\* The optional enhancement step of Text->Image and Simple Edit.
Enhance(template, text, result, done_text, failed_text) ==
    LET got == FirstText(result)
        call == Call(text_model, template, Val(text), 0, got)
    IN  IF got = Raised
        THEN [final |-> Val(text), calls |-> <<call>>,
              messages |-> <<Msg("warning", failed_text)>>]
        ELSE [final |-> got, calls |-> <<call>>,
              messages |-> <<Msg("toast", done_text)>>]

NoEnhance(text) == [final |-> Val(text), calls |-> <<>>, messages |-> <<>>]

\* A faulty image request that records the images whether or not their
\* rendering failed.
RequestImageRecordFirst(hist, prior, kind, base_filename, template, final_prompt, n_images, result, now, done_msg, empty_text, error_text) ==
    LET call == Call(image_model, template, final_prompt, n_images,
                     IF result = Raised THEN Raised ELSE Returned)
        calls == Append(prior.calls, call)
    IN  IF result = Raised
        THEN Outcome(calls, <<>>, Append(prior.messages, Msg("error", error_text)),
                     <<>>, final_prompt, hist)
        ELSE LET ex == extract_images(result)
                 msgs == IF ex.error
                         THEN Append(prior.messages,
                                     Msg("error", "No image data found in model response."))
                         ELSE prior.messages
             IN  IF ex.images # <<>>
                 THEN LET sh == show_images(ex.images, base_filename)
                          rec == AddAll(hist, ex.images, 1, kind, final_prompt, now)
                      IN  IF sh.raised
                          THEN Outcome(calls, sh.shown,
                                       Append(msgs, Msg("error", error_text)),
                                       ex.images, final_prompt, rec)
                          ELSE Outcome(calls, sh.shown, Append(msgs, done_msg),
                                       ex.images, final_prompt, rec)
                 ELSE Outcome(calls, <<>>, Append(msgs, Msg("error", empty_text)),
                              ex.images, final_prompt, hist)

\* The image request of a flow: call the image model, extract, render, then
\* record. prior holds the calls and messages of the steps before it. The
\* three flows share this block, each with its own kind, file name and
\* texts (lines 194-210, 251-267, 304-320).
RequestImage(hist, prior, kind, base_filename, template, final_prompt, n_images, result, now, done_msg, empty_text, error_text) ==
    LET call == Call(image_model, template, final_prompt, n_images,
                     IF result = Raised THEN Raised ELSE Returned)
        calls == Append(prior.calls, call)
    IN  IF result = Raised
        THEN Outcome(calls, <<>>, Append(prior.messages, Msg("error", error_text)),
                     <<>>, final_prompt, hist)
        ELSE LET ex == extract_images(result)
                 msgs == IF ex.error
                         THEN Append(prior.messages,
                                     Msg("error", "No image data found in model response."))
                         ELSE prior.messages
             IN  IF ex.images # <<>>
                 THEN LET sh == show_images(ex.images, base_filename)
                      IN  IF sh.raised
                          THEN Outcome(calls, sh.shown,
                                       Append(msgs, Msg("error", error_text)),
                                       ex.images, final_prompt, hist)
                          ELSE Outcome(calls, sh.shown, Append(msgs, done_msg),
                                       ex.images, final_prompt,
                                       AddAll(hist, ex.images, 1, kind, final_prompt, now))
                 ELSE Outcome(calls, <<>>, Append(msgs, Msg("error", empty_text)),
                              ex.images, final_prompt, hist)

\* --- TEXT TO IMAGE: the handler of "Generate Image".
TextToImage(hist, prompt, enhance_prompts, text_result, image_result, now) ==
    IF strip(prompt) = <<>> THEN Rejected(hist, "Please enter a prompt.")
    ELSE LET enh == IF enhance_prompts
                    THEN Enhance("improve_prompt", prompt, text_result,
                                 "Prompt enhanced",
                                 "Prompt enhancement failed. Using original prompt.")
                    ELSE NoEnhance(prompt)
         IN  RequestImage(hist, enh, "Text->Image", "generated_image", "plain",
                          enh.final, 0, image_result, now,
                          Msg("balloons", ""),
                          "No image returned. Try a more specific prompt.",
                          "Generation error")

\* --- SIMPLE EDIT: the handler of "Apply Edit".
SimpleEdit(hist, uploaded_img, edit_prompt, enhance_prompts, text_result, image_result, now) ==
    IF uploaded_img = "none" THEN Rejected(hist, "Please upload an image to edit.")
    ELSE IF strip(edit_prompt) = <<>>
         THEN Rejected(hist, "Please enter edit instructions.")
    ELSE IF uploaded_img = "corrupt" THEN Uncaught(hist)
    ELSE LET enh == IF enhance_prompts
                    THEN Enhance("improve_instruction", edit_prompt, text_result,
                                 "Edit prompt enhanced",
                                 "Enhancement failed. Using original instruction.")
                    ELSE NoEnhance(edit_prompt)
         IN  RequestImage(hist, enh, "Simple Edit", "edited_image", "plain",
                          enh.final, 1, image_result, now,
                          Msg("toast", "Edit complete"),
                          "No edited image returned. Try more precise instructions.",
                          "Edit error")

\* A faulty Pose Transfer that requests the image without testing
\* pose_prompt.
PoseTransferUnguarded(hist, base_img, ref_img, text_result, image_result, now) ==
    IF base_img = "none" \/ ref_img = "none"
    THEN Rejected(hist,
             "Please upload both the base image and the reference pose image.")
    ELSE IF base_img = "corrupt" \/ ref_img = "corrupt" THEN Uncaught(hist)
    ELSE LET got == FirstText(text_result)
             call == Call(text_model, "describe_pose", None, 1, got)
             pose_prompt == IF got = Raised THEN None ELSE got
             prior == [calls |-> <<call>>,
                        messages |-> IF got = Raised
                                     THEN <<Msg("error", "Pose extraction failed")>>
                                     ELSE <<>>]
         IN  RequestImage(hist, prior, "Pose Transfer", "pose_transfer",
                          "change_pose", pose_prompt, 1, image_result, now,
                          Msg("toast", "Pose transfer complete"),
                          "No result image returned. Try a clearer reference pose.",
                          "Pose transfer error")

\* --- POSE TRANSFER: the handler of "Apply Pose Transfer".
PoseTransfer(hist, base_img, ref_img, text_result, image_result, now) ==
    IF base_img = "none" \/ ref_img = "none"
    THEN Rejected(hist,
             "Please upload both the base image and the reference pose image.")
    ELSE IF base_img = "corrupt" \/ ref_img = "corrupt" THEN Uncaught(hist)
    ELSE LET got == FirstText(text_result)
             call == Call(text_model, "describe_pose", None, 1, got)
             pose_prompt == IF got = Raised THEN None ELSE got
             prior == [calls |-> <<call>>,
                        messages |-> IF got = Raised
                                     THEN <<Msg("error", "Pose extraction failed")>>
                                     ELSE <<>>]
         IN  IF TruthyText(pose_prompt)
             THEN RequestImage(hist, prior, "Pose Transfer", "pose_transfer",
                               "change_pose", pose_prompt, 1, image_result, now,
                               Msg("toast", "Pose transfer complete"),
                               "No result image returned. Try a clearer reference pose.",
                               "Pose transfer error")
             ELSE Outcome(prior.calls, <<>>, prior.messages, <<>>, pose_prompt, hist)

\* ------------------------------------------------------------------------
\* Inputs
\* ------------------------------------------------------------------------
\* Texts typed into a text area: empty, whitespace only, and a text with
\* whitespace around it.
Prompts == {<<>>, <<" ", " ">>, <<" ", "a", " ">>}

\* datetime.now().strftime("%Y-%m-%d %H:%M:%S"). The wall clock is not
\* modelled further: the runs of a session fall in one second.
Now == "2025-01-01 12:00:00"

\* A file uploader holds nothing, an image file, or a file PIL cannot open.
Uploads == {"none", "ok", "corrupt"}

PngA == Part(None, Val(Blob(Val("A"), Val("image/png"))))
JpegB == Part(None, Val(Blob(Val("B"), Val("image/jpeg"))))
PngX == Part(None, Val(Blob(Val("X"), Val("image/png"))))
TextOnly == Part(Val(<<"e">>), None)

\* Replies of the text model: the call raises, or a response without a
\* first candidate, without a first part, with a first part without text,
\* with an empty text, with a text.
TextResults ==
    {Raised, Response(Val(<<>>)), OfParts(<<>>),
     OfParts(<<Part(None, None)>>), OfParts(<<Part(Val(<<>>), None)>>),
     OfParts(<<TextOnly>>)}

\* Replies of the image model: the call raises, or a response without
\* candidates, with text only, with two images, with an image after a text,
\* with undecodable bytes, with an inline data object whose MIME type is
\* absent or None.
ImageResults ==
    {Raised, Response(None), OfParts(<<TextOnly>>),
     OfParts(<<PngA, JpegB>>), OfParts(<<TextOnly, JpegB>>),
     OfParts(<<PngA, PngX>>),
     OfParts(<<JpegB, Part(None, Val(Blob(Val("A"), Absent)))>>),
     OfParts(<<PngA, Part(None, Val(Blob(Val("B"), None)))>>)}

\* Responses given to extract_images on its own.
ExtractParts ==
    {Part(None, Absent), TextOnly}
    \cup {Part(None, Val(Blob(d, m))) :
            d \in {Absent, None, Val(""), Val("A"), Val("B")},
            m \in {Absent, None, Val("image/png"), Val("image/jpeg")}}

FirstCandidates ==
    {Candidate(None), Candidate(Val(Content(None)))}
    \cup {Candidate(Val(Content(Val(ps)))) : ps \in SeqUpTo(ExtractParts, MaxParts)}

OtherCandidates == {Candidate(None), Candidate(Val(Content(Val(<<JpegB>>))))}

ExtractInputs ==
    {Response(None), Response(Val(<<>>))}
    \cup {Response(Val(<<c>>)) : c \in FirstCandidates}
    \cup {Response(Val(<<c, o>>)) : c \in FirstCandidates, o \in OtherCandidates}

\* ------------------------------------------------------------------------
\* State
\* ------------------------------------------------------------------------
VARIABLES
    history,       \* st.session_state.history
    flow,          \* what the last run of the script was for
    inputs,        \* the widgets' values in the last run
    calls,         \* the calls of generate_content made by the last run
    shown,         \* the images the last run put in the output container
    messages,      \* st.error / st.warning / st.toast / st.balloons of the last run
    extracted,     \* the images extract_images returned in the last run
    final_prompt,  \* final_prompt / final_edit_prompt / pose_prompt of the last run
    before,        \* the history at the start of the last run
    gallery,       \* the entries the History tab showed in the last run
    invocations,   \* the runs that appended records since the last clear
    response,      \* the argument of extract_images called on its own
    result,        \* its result
    done           \* whether it was called

vars == <<history, flow, inputs, calls, shown, messages, extracted,
          final_prompt, before, gallery, invocations, response, result, done>>

Flows == {"Text->Image", "Simple Edit", "Pose Transfer"}

Widgets(text, enhance, up1, up2) ==
    [text |-> text, enhance |-> enhance, up1 |-> up1, up2 |-> up2]

NoWidgets == Widgets(<<>>, FALSE, "none", "none")

InitSession ==
    /\ history = <<>>
    /\ flow = "start"
    /\ inputs = NoWidgets
    /\ calls = <<>>
    /\ shown = <<>>
    /\ messages = <<>>
    /\ extracted = <<>>
    /\ final_prompt = None
    /\ before = <<>>
    /\ gallery = <<>>
    /\ invocations = <<>>
    /\ result = [images |-> <<>>, error |-> FALSE]
    /\ done = FALSE

Init ==
    /\ InitSession
    /\ response = Response(None)

\* The run leaves what out says; the History tab is rendered after the
\* flows' tabs unless an uncaught exception ended the run.
Finish(kind, widgets, out) ==
    /\ history' = out.history
    /\ flow' = kind
    /\ inputs' = widgets
    /\ calls' = out.calls
    /\ shown' = out.shown
    /\ messages' = out.messages
    /\ extracted' = out.extracted
    /\ final_prompt' = out.final_prompt
    /\ before' = history
    /\ gallery' = IF out.messages # <<>>
                     /\ out.messages[Len(out.messages)].level = "exception"
                  THEN <<>>
                  ELSE HistoryTab(out.history).page
    /\ invocations' = IF out.history # history
                      THEN Append(invocations,
                                  [kind |-> kind, prompt |-> out.final_prompt,
                                   images |-> out.extracted])
                      ELSE invocations
    /\ UNCHANGED <<response, result, done>>

\* The replies a run reads: a call that is not made has no reply to draw.
TextRepliesIf(called) == IF called THEN TextResults ELSE {Raised}
ImageRepliesIf(called) == IF called THEN ImageResults ELSE {Raised}

GenerateImage ==
    /\ Len(history) < MaxHistory
    /\ \E prompt \in Prompts, enhance_prompts \in BOOLEAN :
       \E text_result \in TextRepliesIf(strip(prompt) # <<>> /\ enhance_prompts),
          image_result \in ImageRepliesIf(strip(prompt) # <<>>) :
       \E out \in {TextToImage(history, prompt, enhance_prompts, text_result,
                                image_result, Now)} :
          Finish("Text->Image", Widgets(prompt, enhance_prompts, "none", "none"), out)

ApplyEdit ==
    /\ Len(history) < MaxHistory
    /\ \E uploaded_img \in Uploads, edit_prompt \in Prompts,
          enhance_prompts \in BOOLEAN :
       \E text_result \in TextRepliesIf(uploaded_img = "ok" /\ strip(edit_prompt) # <<>>
                                          /\ enhance_prompts),
          image_result \in ImageRepliesIf(uploaded_img = "ok"
                                           /\ strip(edit_prompt) # <<>>) :
       \E out \in {SimpleEdit(history, uploaded_img, edit_prompt, enhance_prompts,
                               text_result, image_result, Now)} :
          Finish("Simple Edit",
                 Widgets(edit_prompt, enhance_prompts, uploaded_img, "none"), out)

ApplyPoseTransfer ==
    /\ Len(history) < MaxHistory
    /\ \E base_img \in Uploads, ref_img \in Uploads :
       \E text_result \in TextRepliesIf(base_img = "ok" /\ ref_img = "ok") :
       \E image_result \in ImageRepliesIf(base_img = "ok" /\ ref_img = "ok"
                                           /\ TruthyText(FirstText(text_result))) :
       \E out \in {PoseTransfer(history, base_img, ref_img, text_result,
                                 image_result, Now)} :
          Finish("Pose Transfer", Widgets(<<>>, FALSE, base_img, ref_img), out)

\* A faulty clear that keeps the oldest record.
clear_keeps_oldest(hist) == IF hist = <<>> THEN <<>> ELSE <<hist[1]>>

\* st.session_state.history.clear()
clear(hist) == <<>>

\* "Clear history": the button is reached only when the History tab has
\* entries and showed them all; the rerun that follows shows an empty tab.
ClearHistory ==
    /\ history # <<>>
    /\ ~HistoryTab(history).raised
    /\ history' = clear(history)
    /\ flow' = "Clear history"
    /\ inputs' = NoWidgets
    /\ calls' = <<>>
    /\ shown' = <<>>
    /\ messages' = <<>>
    /\ extracted' = <<>>
    /\ final_prompt' = None
    /\ before' = history
    /\ gallery' = HistoryTab(history').page
    /\ invocations' = <<>>
    /\ UNCHANGED <<response, result, done>>

\* No API key, or the client could not be built: st.stop() before the tabs.
ScriptStopped ==
    /\ \E text \in {"Add your Google API key in the sidebar to start.",
                    "Failed to initialize Gemini client. Check your API key."} :
          messages' = <<Msg(IF text = "Add your Google API key in the sidebar to start."
                            THEN "warning" ELSE "error", text)>>
    /\ flow' = "stopped"
    /\ inputs' = NoWidgets
    /\ calls' = <<>>
    /\ shown' = <<>>
    /\ extracted' = <<>>
    /\ final_prompt' = None
    /\ before' = history
    /\ gallery' = <<>>
    /\ UNCHANGED <<history, invocations, response, result, done>>

Next ==
    \/ ApplyPoseTransfer
    \/ GenerateImage
    \/ ApplyEdit
    \/ ClearHistory
    \/ ScriptStopped

Spec == Init /\ [][Next]_vars

\* extract_images on its own, on every response of ExtractInputs.
InitExtract ==
    /\ InitSession
    /\ response \in ExtractInputs

Extract ==
    /\ ~done
    /\ done' = TRUE
    /\ result' = extract_images(response)
    /\ UNCHANGED <<history, flow, inputs, calls, shown, messages,
                   extracted, final_prompt, before, gallery, invocations,
                   response>>

NextExtract == Extract

SpecExtract == InitExtract /\ [][NextExtract]_vars

\* ------------------------------------------------------------------------
\* Properties
\* ------------------------------------------------------------------------
Last(xs) == xs[Len(xs)]

IsPrefix(xs, ys) == Len(xs) <= Len(ys) /\ SubSeq(ys, 1, Len(xs)) = xs

\* The records the last run appended.
Appended == SubSeq(history, Len(before) + 1, Len(history))

\* The last run told the user of an error.
ErrorReported ==
    \E i \in 1..Len(messages) : messages[i].level \in {"error", "exception"}

\* The last run ended in a flow's error branch.
EndsInFailure ==
    /\ flow \in Flows
    /\ messages # <<>>
    /\ Last(messages).level \in {"error", "exception"}

\* The last run ended in a flow's success branch.
Succeeded ==
    /\ flow \in Flows
    /\ messages # <<>>
    /\ Last(messages) \in {Msg("balloons", ""), Msg("toast", "Edit complete"),
                           Msg("toast", "Pose transfer complete")}

\* A text of whitespace only.
Blank(s) == \A i \in 1..Len(s) : s[i] \in Whitespace

\* The structure extract_images walks is there: a first candidate with a
\* content with a list of parts.
HasParts(r) ==
    /\ r.candidates.st = "val"
    /\ r.candidates.v # <<>>
    /\ r.candidates.v[1].content.st = "val"
    /\ r.candidates.v[1].content.v.parts.st = "val"

PartsOf(r) == r.candidates.v[1].content.v.parts.v

\* Every inline data object of the first candidate has its two attributes.
WellFormed(r) ==
    /\ HasParts(r)
    /\ \A i \in 1..Len(PartsOf(r)) :
          LET inline == PartsOf(r)[i].inline_data
          IN  inline.st = "val" =>
                 inline.v.data.st # "absent" /\ inline.v.mime_type.st # "absent"

\* The part carries non-empty inline data.
CarriesData(part) ==
    /\ part.inline_data.st = "val"
    /\ part.inline_data.v.data.st = "val"
    /\ part.inline_data.v.data.v # ""

PairOf(part) ==
    [bytes |-> part.inline_data.v.data.v, mime |-> part.inline_data.v.mime_type]

PairsOf(r) ==
    LET kept == SelectSeq(PartsOf(r), CarriesData)
    IN  [i \in 1..Len(kept) |-> PairOf(kept[i])]

\* C1: for every response whose first candidate has a well-formed parts
\* list, extract_images returns one (data, mime_type) pair per part that
\* carries non-empty inline data, in the order of the parts of the first
\* candidate, and nothing for the other parts or the other candidates.
C1_ExtractInPartOrder ==
    (done /\ WellFormed(response)) =>
        (result.images = PairsOf(response) /\ ~result.error)

\* Two images after each other in a response with a second candidate.
C1_Witness ==
    /\ done
    /\ WellFormed(response)
    /\ Len(response.candidates.v) = 2
    /\ Len(result.images) = 2
    /\ result.images[1].bytes # result.images[2].bytes

\* The first candidate's structure is missing somewhere, or one of its
\* inline data objects lacks its data or its MIME type.
Malformed(r) ==
    \/ ~HasParts(r)
    \/ \E i \in 1..Len(PartsOf(r)) :
          LET inline == PartsOf(r)[i].inline_data
          IN  inline.st = "val"
              /\ (inline.v.data.st # "val" \/ inline.v.mime_type.st # "val")

\* C2: for every response in which the expected structure is missing or
\* malformed at any level, at any position of the parts list,
\* extract_images returns an empty sequence.
C2_MalformedYieldsEmpty ==
    (done /\ Malformed(response)) => result.images = <<>>

\* The records the invocations invs leave, most recent first, without their
\* timestamps: one per image, the later invocation first and, within one
\* invocation, the later image first.
RECURSIVE RecordsOf(_)
RecordsOf(invs) ==
    IF invs = <<>> THEN <<>>
    ELSE LET inv == Last(invs)
             imgs == reversed(inv.images)
         IN  [i \in 1..Len(imgs) |->
                 [bytes |-> imgs[i].bytes, mime |-> imgs[i].mime,
                  kind |-> inv.kind, prompt |-> inv.prompt]]
             \o RecordsOf(SubSeq(invs, 1, Len(invs) - 1))

Untimed(view) ==
    [i \in 1..Len(view) |->
        [bytes |-> view[i].bytes, mime |-> view[i].mime,
         kind |-> view[i].meta.kind, prompt |-> view[i].meta.prompt]]

\* C3 as stated: after K successful invocations since the last clear, the
\* history enumerated most recent first holds exactly K records, the i-th
\* matching the i-th latest invocation's kind, prompt and image bytes.
C3_OneRecordPerInvocation ==
    LET view == reversed(history)
        K == Len(invocations)
    IN  /\ Len(view) = K
        /\ \A i \in 1..K :
              LET inv == invocations[K + 1 - i]
              IN  /\ view[i].meta.kind = inv.kind
                  /\ view[i].meta.prompt = inv.prompt
                  /\ \E j \in 1..Len(inv.images) : view[i].bytes = inv.images[j].bytes

\* C3 (amended): after K successful invocations since the last clear, the
\* history enumerated most recent first holds exactly one record per
\* extracted image, the records of a later invocation before those of an
\* earlier one and within one invocation the later image first, each
\* matching its invocation's kind, recorded prompt and image bytes.
C3_OneRecordPerImage ==
    Untimed(reversed(history)) = RecordsOf(invocations)

\* Two invocations of different flows, the later one with two images.
C3_Witness ==
    /\ Len(invocations) = 2
    /\ invocations[1].kind # invocations[2].kind
    /\ Len(invocations[2].images) = 2
    /\ Len(history) = 3

\* The enhancement call of the last run failed.
EnhanceFailed ==
    /\ flow \in {"Text->Image", "Simple Edit"}
    /\ inputs.enhance
    /\ calls # <<>>
    /\ calls[1].model = text_model
    /\ calls[1].got = Raised

\* C4: in Text->Image and Simple Edit with enhancement enabled, when the
\* text call fails the run still calls the image model, with the original
\* user text as the instruction, and every record it appends carries the
\* original text as its prompt.
C4_EnhanceFailureFallsBack ==
    EnhanceFailed =>
        /\ Len(calls) = 2
        /\ calls[2].model = image_model
        /\ calls[2].text = Val(inputs.text)
        /\ \A i \in 1..Len(Appended) : Appended[i].meta.prompt = Val(inputs.text)

\* A failed enhancement followed by an image that was recorded.
C4_Witness ==
    /\ EnhanceFailed
    /\ Appended # <<>>

\* The pose description call of the last run failed.
PoseFailed ==
    /\ flow = "Pose Transfer"
    /\ calls # <<>>
    /\ calls[1].template = "describe_pose"
    /\ calls[1].got = Raised

\* C5: when the pose description call of Pose Transfer fails, the run makes
\* no image call, reports the failure and leaves the history unchanged;
\* every image call of Pose Transfer comes after a pose description call
\* that returned text.
C5_PoseFailureAborts ==
    flow = "Pose Transfer" =>
        /\ PoseFailed =>
              /\ \A i \in 1..Len(calls) : calls[i].model # image_model
              /\ ErrorReported
              /\ history = before
        /\ \A i \in 1..Len(calls) :
              calls[i].model = image_model =>
                  \E j \in 1..(i - 1) :
                      /\ calls[j].model = text_model
                      /\ calls[j].template = "describe_pose"
                      /\ calls[j].got.st = "val"

\* A failed pose description call, with records already in the history.
C5_Witness ==
    /\ PoseFailed
    /\ before # <<>>

\* The widgets of the last run lack a required input.
Invalid ==
    \/ flow = "Text->Image" /\ Blank(inputs.text)
    \/ flow = "Simple Edit" /\ (inputs.up1 = "none" \/ Blank(inputs.text))
    \/ flow = "Pose Transfer" /\ (inputs.up1 = "none" \/ inputs.up2 = "none")

\* C6: a run of Text->Image with an empty or whitespace-only prompt, of
\* Simple Edit without an uploaded image or with an empty or
\* whitespace-only instruction, or of Pose Transfer with an image missing,
\* calls neither model, whatever the enhancement setting, reports an error
\* and leaves the history unchanged.
C6_ValidationBeforeCalls ==
    Invalid =>
        /\ calls = <<>>
        /\ ErrorReported
        /\ history = before

\* A whitespace-only text with enhancement enabled.
C6_Witness ==
    /\ Invalid
    /\ inputs.text # <<>>
    /\ inputs.enhance
    /\ before # <<>>

\* C7: a run of a flow that ends in failure leaves the history as it was,
\* whether the image call raised, the extraction yielded no image or the
\* rendering of the extracted images failed; records are appended only by a
\* run whose extraction yielded at least one image.
C7_FailureLeavesHistory ==
    flow \in Flows =>
        /\ EndsInFailure => history = before
        /\ history # before => (extracted # <<>> /\ Succeeded)

\* The rendering failed at the second of two extracted images.
C7_Witness ==
    /\ EndsInFailure
    /\ Len(extracted) = 2
    /\ Len(shown) = 1
    /\ before # <<>>

\* C8: every run of a flow ends either in success, with the images rendered
\* and recorded in the history, or with an error message and nothing
\* recorded; no run ends with neither images nor an error message.
C8_SuccessOrError ==
    flow \in Flows =>
        \/ /\ Succeeded
           /\ ~ErrorReported
           /\ shown # <<>>
           /\ Len(Appended) = Len(shown)
        \/ /\ ErrorReported
           /\ ~Succeeded
           /\ history = before

\* C9: "Clear history" leaves an empty history, whatever its size, and an
\* empty enumeration; every other step leaves the records of the history
\* in place and at most appends records after them.
C9_OnlyClearRemoves ==
    [][IF flow' = "Clear history"
       THEN history' = <<>> /\ reversed(history') = <<>> /\ gallery' = <<>>
       ELSE IsPrefix(history, history')]_vars

\* A clear of a history of three records.
C9_Witness ==
    /\ flow = "Clear history"
    /\ Len(before) = 3
    /\ history = <<>>

\* C10: at the end of every run of a flow the images shown in the output,
\* each with its download button, are exactly the images the run appended
\* to the history, in the same order; each record carries the flow's kind
\* and the prompt sent to the image model.
C10_ShownAreRecorded ==
    flow \in Flows =>
        /\ Len(shown) = Len(Appended)
        /\ \A i \in 1..Len(shown) :
              /\ shown[i].download
              /\ shown[i].bytes = Appended[i].bytes
              /\ Appended[i].meta.kind = flow
              /\ Appended[i].meta.prompt = Last(calls).text

====
